---------------------------- MODULE Spec2Model ----------------------------
(***************************************************************************)
(* A model of build_calendar.py: the crawler that turns the Phoenix        *)
(* cinema's listings into an iCalendar feed.                               *)
(*                                                                         *)
(*   - texts are sequences of tokens (words), regular expressions are      *)
(*     predicates over those sequences;                                    *)
(*   - a parsed document is the sequence of its elements in document       *)
(*     order, each with the index of its parent element;                   *)
(*   - dates follow datetime.date (proleptic Gregorian calendar).          *)
(*                                                                         *)
(* Three specifications:                                                   *)
(*   SpecResolve  the second loop of parse_times_and_dates (lines 142-171) *)
(*   SpecWalk     the first loop of parse_times_and_dates (lines 107-140)  *)
(*   Spec         a run of build_calendar and __main__ (lines 177-220);    *)
(*                FairSpec is Spec with the fairness of a running program. *)
(***************************************************************************)
EXTENDS Integers, Sequences, FiniteSets, TLC

\* ------------------------------------------------------------- bounds
\* Reference dates ("today") range over FirstYear .. FirstYear + YearSpan.
YearSpan == 1
\* Day numbers of date labels range over 0 .. MaxDay.
MaxDay == 32
\* Hour digits of time labels range over 0 .. MaxHour.
MaxHour == 13
\* Minute digits of time labels range over 0 .. MaxMinute.
MaxMinute == 60
\* Longest sequence of recorded raw showtimes handed to the resolver.
MaxEvents == 2
\* Most elements of a walked document.
MaxNodes == 4
\* Index page numbers from MaxPage on are identified with MaxPage.
MaxPage == 3

\* The years a reference date is drawn from: a leap year and its successors.
Years == 2024..(2024 + YearSpan)

\* ------------------------------------------------------------- dates
\* datetime.date: which (year, month, day) exist, and their ordinals.
IsLeap(y) == (y % 4 = 0) /\ ((y % 100 # 0) \/ (y % 400 = 0))

DaysInMonth(y, m) ==
    CASE m = 2 -> IF IsLeap(y) THEN 29 ELSE 28
      [] m \in {4, 6, 9, 11} -> 30
      [] OTHER -> 31

\* dt.date(y, m, d) raises ValueError unless this holds.
DateExists(y, m, d) == m \in 1..12 /\ d >= 1 /\ d <= DaysInMonth(y, m)

DaysBeforeYear(y) ==
    LET p == y - 1 IN 365 * p + (p \div 4) - (p \div 100) + (p \div 400)

RECURSIVE DaysBeforeMonth(_, _)
DaysBeforeMonth(y, m) ==
    IF m <= 1 THEN 0 ELSE DaysBeforeMonth(y, m - 1) + DaysInMonth(y, m - 1)

\* date.toordinal(): the order "<" of dates, and the unit of timedelta(days).
Ordinal(y, m, d) == DaysBeforeYear(y) + DaysBeforeMonth(y, m) + d

Date(y, m, d) == [year |-> y, mon |-> m, day |-> d]

\* ------------------------------------------------------------- tokens
\* A text is a sequence of tokens. k is the token's shape:
\*   "wd"    one of Mon..Sun as a whole word            (s = the word)
\*   "num"   one or two digits                          (n = their value)
\*   "mon"   a word of letters, s = its first three letters as written
\*   "time"  <digits>.<2 digits><am|pm>                 (n = hour digits,
\*           m = minute digits, s = the suffix as written)
\*   "comma" a comma
\*   "word"  anything else                              (s = the word/phrase)
Tok(k, s, n, m) == [k |-> k, s |-> s, n |-> n, m |-> m]
Wd(s) == Tok("wd", s, 0, 0)
Num(n) == Tok("num", "", n, 0)
Mon(s) == Tok("mon", s, 0, 0)
Time(h, mm, ap) == Tok("time", ap, h, mm)
Comma == Tok("comma", ",", 0, 0)
Word(s) == Tok("word", s, 0, 0)

Weekdays == {"Mon", "Tue", "Wed", "Thu", "Fri", "Sat", "Sun"}
MonthAbbr == <<"Jan", "Feb", "Mar", "Apr", "May", "Jun",
               "Jul", "Aug", "Sep", "Oct", "Nov", "Dec">>

\* str.lower() on the three-letter words and suffixes the model uses.
Lower(s) ==
    CASE s = "Jan" -> "jan" [] s = "Feb" -> "feb" [] s = "Mar" -> "mar"
      [] s = "Apr" -> "apr" [] s = "May" -> "may" [] s = "Jun" -> "jun"
      [] s = "Jul" -> "jul" [] s = "Aug" -> "aug" [] s = "Sep" -> "sep"
      [] s = "Oct" -> "oct" [] s = "Nov" -> "nov" [] s = "Dec" -> "dec"
      [] s = "AUG" -> "aug" [] s = "Foo" -> "foo"
      [] s = "AM" -> "am" [] s = "PM" -> "pm"
      [] OTHER -> s

\* month_map: {"jan": 1, ..., "dec": 12}
month_map_keys == {Lower(MonthAbbr[i]) : i \in 1..12}
month_map(k) == CHOOSE i \in 1..12 : Lower(MonthAbbr[i]) = k

\* requests.compat.urljoin(BASE, href) on the hrefs the model uses.
urljoin(href) ==
    CASE href = "/book/1" -> "https://www.phoenix.org.uk/book/1"
      [] href = "/book/2" -> "https://www.phoenix.org.uk/book/2"
      [] href = "/whats-on/programme/a/"
           -> "https://www.phoenix.org.uk/whats-on/programme/a/"
      [] href = "/whats-on/programme/b/"
           -> "https://www.phoenix.org.uk/whats-on/programme/b/"
      [] href = "/whats-on/programme/c/"
           -> "https://www.phoenix.org.uk/whats-on/programme/c/"
      [] href = "/whats-on/" -> "https://www.phoenix.org.uk/whats-on/"
      [] OTHER -> href

\* line 71: "/whats-on/programme/" in href
IsProgrammeHref(href) ==
    href \in {"/whats-on/programme/a/", "/whats-on/programme/b/",
              "/whats-on/programme/c/",
              "https://www.phoenix.org.uk/whats-on/programme/a/"}

\* The order of str on the programme URLs, as sorted() uses it.
UrlRank(url) ==
    CASE url = "https://www.phoenix.org.uk/whats-on/programme/a/" -> 1
      [] url = "https://www.phoenix.org.uk/whats-on/programme/b/" -> 2
      [] url = "https://www.phoenix.org.uk/whats-on/programme/c/" -> 3
      [] OTHER -> 4

\* sorted(S) for a set of URLs.
RECURSIVE sorted(_)
sorted(S) ==
    IF S = {} THEN <<>>
    ELSE LET u == CHOOSE x \in S : \A y \in S : UrlRank(x) <= UrlRank(y)
         IN <<u>> \o sorted(S \ {u})

\* lines 66-73: the programme links of an index page, made absolute.
find_programme_links(soup) ==
    {urljoin(h) : h \in {x \in soup.links : IsProgrammeHref(x)}}

\* -------------------------------------------------- regular expressions
\* line 125: ^(Mon|Tue|Wed|Thu|Fri|Sat|Sun)\b against a node's text.
WeekdayStart(txt) == Len(txt) >= 1 /\ txt[1].k = "wd"

RECURSIVE FirstComma(_, _)
FirstComma(txt, i) ==
    IF i > Len(txt) THEN i
    ELSE IF txt[i].k = "comma" THEN i ELSE FirstComma(txt, i + 1)

\* line 130: re.sub(r",.*$", "", txt): the text up to its first comma.
StripAfterComma(txt) == SubSeq(txt, 1, FirstComma(txt, 1) - 1)

\* line 149: ^(?:Mon|...|Sun)\s+(\d{1,2})\s+([A-Za-z]{3}) against a date label.
DateLabelMatch(dlabel) ==
    /\ Len(dlabel) >= 3
    /\ dlabel[1].k = "wd"
    /\ dlabel[2].k = "num"
    /\ dlabel[3].k \in {"mon", "wd"}

\* lines 136, 162: ^(\d{1,2})\.(\d{2})(am|pm)$, re.I, against a time label.
TimeLabelMatch(tlabel) == Len(tlabel) = 1 /\ tlabel[1].k = "time"

\* ------------------------------------------------------------ resolver
\* lines 157: try_date < today - dt.timedelta(days=2)
RollForwardNoGrace(today, mon, day) ==
    Ordinal(today.year, mon, day) < Ordinal(today.year, today.mon, today.day)

RollForward(today, mon, day) ==
    Ordinal(today.year, mon, day)
        < Ordinal(today.year, today.mon, today.day) - 2

\* lines 165-168: hh = int(h) % 12, plus 12 for "pm".
Hour24NoWrap(h, ap) == IF Lower(ap) = "pm" THEN h + 12 ELSE h

Hour24(h, ap) == IF Lower(ap) = "pm" THEN (h % 12) + 12 ELSE h % 12

\* dt.datetime(year, mon, day, hh, mm, tzinfo=TZ) raises ValueError unless
\* this holds (the date exists by then).
ClockExists(hh, mm) == hh \in 0..23 /\ mm \in 0..59

Skip == [outcome |-> "skip"]
Raise(what) == [outcome |-> "raise", error |-> what]
Ok(y, mon, day, hh, mm, href) ==
    [outcome |-> "ok",
     entry |-> [start |-> [year |-> y, mon |-> mon, day |-> day,
                           hour |-> hh, minute |-> mm],
                href |-> href]]

\* One iteration of the loop of lines 147-170 on one recorded triple.
ResolveOne(today, ev) ==
    IF ~DateLabelMatch(ev.dlabel) THEN Skip
    ELSE
      LET day == ev.dlabel[2].n
          key == Lower(ev.dlabel[3].s)
      IN IF key \notin month_map_keys THEN Raise("KeyError")
         ELSE
           LET mon == month_map(key) IN
           IF ~DateExists(today.year, mon, day) THEN Raise("ValueError")
           ELSE
             LET year == IF RollForward(today, mon, day)
                         THEN today.year + 1 ELSE today.year
             IN IF ~DateExists(year, mon, day) THEN Raise("ValueError")
                ELSE IF ~TimeLabelMatch(ev.tlabel) THEN Skip
                ELSE
                  LET hh == Hour24(ev.tlabel[1].n, ev.tlabel[1].s)
                      mm == ev.tlabel[1].m
                  IN IF ~ClockExists(hh, mm) THEN Raise("ValueError")
                     ELSE Ok(year, mon, day, hh, mm, ev.href)

\* The whole loop of lines 143-171: the resolved list, or the exception
\* that leaves parse_times_and_dates.
RECURSIVE ResolveFrom(_, _, _, _)
ResolveFrom(today, evs, i, acc) ==
    IF i > Len(evs) THEN [raised |-> FALSE, resolved |-> acc]
    ELSE LET r == ResolveOne(today, evs[i]) IN
         CASE r.outcome = "raise" -> [raised |-> TRUE, resolved |-> acc]
           [] r.outcome = "skip" -> ResolveFrom(today, evs, i + 1, acc)
           [] OTHER -> ResolveFrom(today, evs, i + 1, Append(acc, r.entry))

ResolveAll(today, evs) == ResolveFrom(today, evs, 1, <<>>)

\* ------------------------------------------------------------ documents
\* A parsed document: its elements in document order. parent is the index
\* of the element's parent, 0 for the document itself (the BeautifulSoup
\* object); words is the element's own text; href is "" without the
\* attribute.
Node(name, words, href, parent) ==
    [name |-> name, words |-> words, href |-> href, parent |-> parent]

RECURSIVE Ancestors(_, _)
Ancestors(doc, i) ==
    IF i = 0 THEN {} ELSE {i} \cup Ancestors(doc, doc[i].parent)

\* The elements inside element i (i itself included).
Subtree(doc, i) == {j \in i..Len(doc) : i \in Ancestors(doc, j)}

RECURSIVE TextFrom(_, _, _)
TextFrom(doc, i, j) ==
    IF j > Len(doc) THEN <<>>
    ELSE (IF j \in Subtree(doc, i) THEN doc[j].words ELSE <<>>)
             \o TextFrom(doc, i, j + 1)

\* node.get_text(" ", strip=True): the words of the element and of all
\* the elements inside it, in document order.
get_text(doc, i) == TextFrom(doc, i, i)

Contains(txt, phrase) == \E k \in 1..Len(txt) : txt[k].s = phrase

\* lines 108-114: the first h2/h3 whose text contains "Times & tickets";
\* 0 stands for None.
start_index(doc) ==
    LET hs == {i \in 1..Len(doc) :
                 /\ doc[i].name \in {"h2", "h3"}
                 /\ Contains(get_text(doc, i), "Times & tickets")}
    IN IF hs = {} THEN 0 ELSE CHOOSE i \in hs : \A j \in hs : i <= j

\* lines 119, 122: block.find_all_next() yields every element that starts
\* after the start tag of block, the parent of the heading: the elements
\* from this index on (all of the document when block is the document).
FirstWalked(doc) == doc[start_index(doc)].parent + 1

\* lines 125-131: the date label after visiting element i.
DateAfter(doc, i, cur) ==
    LET txt == get_text(doc, i)
    IN IF WeekdayStart(txt) THEN StripAfterComma(txt) ELSE cur

\* lines 134-137: whether element i is recorded under the date label cur.
IsTimeLink(doc, i, cur) ==
    /\ doc[i].name = "a"
    /\ doc[i].href # ""
    /\ TimeLabelMatch(get_text(doc, i))
    /\ cur # <<>>

\* lines 139-140: the walk stops after visiting element i.
IsEndMarker(doc, i) ==
    /\ doc[i].name \in {"h2", "h3"}
    /\ Contains(get_text(doc, i), "Screening Key")

\* lines 107-140 in one go: the recorded triples of a document.
RECURSIVE WalkFrom(_, _, _, _)
WalkFrom(doc, i, cur, evs) ==
    IF i > Len(doc) THEN evs
    ELSE
      LET new == DateAfter(doc, i, cur)
          out == IF IsTimeLink(doc, i, new)
                 THEN Append(evs, [dlabel |-> new,
                                   tlabel |-> get_text(doc, i),
                                   href |-> urljoin(doc[i].href)])
                 ELSE evs
      IN IF IsEndMarker(doc, i) THEN out
         ELSE WalkFrom(doc, i + 1, new, out)

WalkAll(doc) ==
    IF start_index(doc) = 0 THEN <<>>
    ELSE WalkFrom(doc, FirstWalked(doc), <<>>, <<>>)

\* parse_times_and_dates(soup), lines 104-171.
parse_times_and_dates(doc, today) == ResolveAll(today, WalkAll(doc))

\* lines 192-195: the text of the first h1/h2, without a trailing
\* certificate; "Phoenix Screening" without such a heading.
IsCert(tok) ==
    \/ tok.k = "word" /\ tok.s \in {"U", "PG", "12A"}
    \/ tok.k = "num" /\ tok.n \in {12, 15, 18}

title_of(doc) ==
    LET hs == {i \in 1..Len(doc) : doc[i].name \in {"h1", "h2"}}
    IN IF hs = {} THEN <<Word("Phoenix Screening")>>
       ELSE LET t == get_text(doc, CHOOSE i \in hs : \A j \in hs : i <= j)
            IN IF Len(t) >= 2 /\ IsCert(t[Len(t)])
               THEN SubSeq(t, 1, Len(t) - 1) ELSE t

\* lines 173-175: sha1 of "title|start|href" plus a fixed suffix; the
\* digest is taken to be free of collisions, so the uid is the triple.
make_uid(title, start_dt, href) ==
    [title |-> title, start |-> start_dt, href |-> href]

\* lines 200-210: the events of one programme page, in order.
events_of(title, showtimes) ==
    [k \in 1..Len(showtimes) |->
        [uid |-> make_uid(title, showtimes[k].start, showtimes[k].href),
         dtstart |-> showtimes[k].start,
         url |-> showtimes[k].href]]

\* =====================================================================
\* State
\* =====================================================================
VARIABLES
    today,      \* dt.date.today(), line 144
    events,     \* the recorded (date label, time label, URL) triples, line 107
    idx,        \* the triple the loop of line 147 is at
    resolved,   \* the (start_dt, href) pairs, line 143
    origin,     \* history: origin[k] is the index in events of resolved[k]
    raised,     \* an exception has left parse_times_and_dates
    doc,        \* the programme document being walked (soup)
    walkpc,     \* where parse_times_and_dates is in lines 107-140
    pos,        \* the element the loop of line 122 is at
    current_date,   \* line 121; <<>> stands for None
    from,       \* history: from[k] is the element events[k] was recorded at
    pc,         \* where the run is in build_calendar and __main__
    page,       \* iter_whats_on_pages: the index page number, line 55
    soup,       \* the index page last fetched, line 58
    programme_urls, \* line 185
    queue,      \* the programme URLs the loop of line 190 has yet to visit
    psoup,      \* the programme page last fetched, line 191
    cal,        \* the events added to the calendar, in order, line 210
    out,        \* the output file: times written, and what was written
    gap,        \* history: time.sleep(1.5) calls since the last fetch
    fetched,    \* history: a page has been requested
    fetchFailed,    \* history: a request has failed
    indexFetched,   \* history: the index page numbers requested, in order
    nextSeen,   \* history: whether each of them had a "Next" link
    linked,     \* history: the programme URLs linked from them
    relinked,   \* history: an index page linked a URL an earlier one had
    progFetched,    \* history: the programme URLs requested, in order
    assembled   \* history: programme pages whose events were added

resolveVars == <<today, idx, resolved, origin, raised>>
walkVars == <<doc, walkpc, pos, current_date, from>>
runVars == <<pc, page, soup, programme_urls, queue, psoup, cal, out>>
histVars == <<gap, fetched, fetchFailed, indexFetched, nextSeen, linked,
              relinked, progFetched, assembled>>
vars == <<resolveVars, walkVars, events, runVars, histVars>>

\* The values of the variables a specification does not use.
ResolveIdle ==
    /\ today = Date(2025, 8, 30)
    /\ idx = 1
    /\ resolved = <<>>
    /\ origin = <<>>
    /\ raised = FALSE
WalkIdle ==
    /\ doc = <<>>
    /\ walkpc = "idle"
    /\ pos = 0
    /\ current_date = <<>>
    /\ from = <<>>
NoSoup == [links |-> {}, next |-> FALSE]
RunStart ==
    /\ page = 1
    /\ soup = NoSoup
    /\ programme_urls = {}
    /\ queue = <<>>
    /\ psoup = <<>>
    /\ cal = <<>>
    /\ out = [writes |-> 0, data |-> <<>>]
    /\ gap = 0
    /\ fetched = FALSE
    /\ fetchFailed = FALSE
    /\ indexFetched = <<>>
    /\ nextSeen = <<>>
    /\ linked = {}
    /\ relinked = FALSE
    /\ progFetched = <<>>
    /\ assembled = 0
RunIdle == pc = "idle" /\ RunStart

\* ------------------------------------------------- inputs of the resolver
AllDates == {d \in [year : Years, mon : 1..12, day : 1..31] :
                DateExists(d.year, d.mon, d.day)}

\* A few reference dates around the turns of month and year.
SomeDates == {Date(2024, 1, 1), Date(2024, 3, 2), Date(2024, 12, 31),
              Date(2025, 8, 30)}

MonthWords == {MonthAbbr[i] : i \in 1..12} \cup {"AUG", "Foo"}

Raw(dlabel, tlabel, href) ==
    [dlabel |-> dlabel, tlabel |-> tlabel, href |-> href]

\* Every "<Weekday> <day> <mon>" label, each with the same time link.
LabelRaws ==
    {Raw(<<Wd("Sun"), Num(d), Mon(m)>>, <<Time(5, 30, "pm")>>,
         urljoin("/book/1")) : d \in 0..MaxDay, m \in MonthWords}

\* Every "<h>.<mm><am|pm>" time link under the same date label.
TimeRaws ==
    {Raw(<<Wd("Sun"), Num(31), Mon("Aug")>>, <<Time(h, mm, ap)>>,
         urljoin("/book/2")) :
        h \in 0..MaxHour, mm \in 0..MaxMinute, ap \in {"am", "pm", "PM"}}

\* Triples a walk can record: labels with text after the date, a label
\* that is no date, days and months that do not exist, a minute above 59.
MixedRaws ==
    {Raw(<<Wd("Sun"), Num(31), Mon("Aug")>>, <<Time(5, 30, "pm")>>,
         urljoin("/book/1")),
     Raw(<<Wd("Wed"), Num(1), Mon("Jan"), Word("Preview")>>,
         <<Time(12, 0, "am")>>, urljoin("/book/2")),
     Raw(<<Wd("Sun"), Word("special")>>, <<Time(9, 15, "am")>>,
         urljoin("/book/1")),
     Raw(<<Wd("Sat"), Num(31), Mon("Feb")>>, <<Time(5, 30, "pm")>>,
         urljoin("/book/1")),
     Raw(<<Wd("Thu"), Num(29), Mon("Feb")>>, <<Time(5, 30, "pm")>>,
         urljoin("/book/1")),
     Raw(<<Wd("Sun"), Num(0), Mon("Aug")>>, <<Time(5, 30, "pm")>>,
         urljoin("/book/1")),
     Raw(<<Wd("Mon"), Num(1), Mon("Foo")>>, <<Time(5, 30, "pm")>>,
         urljoin("/book/2")),
     Raw(<<Wd("Mon"), Num(1), Mon("Sep")>>, <<Time(7, 75, "pm")>>,
         urljoin("/book/2"))}

SeqsUpTo(S, n) == UNION {[1..k -> S] : k \in 0..n}

\* ---------------------------------------------- specification SpecResolve
ResolveInit ==
    /\ \/ /\ today \in AllDates
          /\ events \in {<<r>> : r \in LabelRaws}
       \/ /\ today \in SomeDates
          /\ events \in {<<r>> : r \in TimeRaws}
       \/ /\ today \in SomeDates
          /\ events \in SeqsUpTo(MixedRaws, MaxEvents)
    /\ idx = 1
    /\ resolved = <<>>
    /\ origin = <<>>
    /\ raised = FALSE
    /\ WalkIdle
    /\ RunIdle

\* One iteration of "for dlabel, tlabel, href in events" (lines 147-170).
ResolveStep ==
    /\ ~raised
    /\ idx <= Len(events)
    /\ LET r == ResolveOne(today, events[idx]) IN
         CASE r.outcome = "raise" ->
                /\ raised' = TRUE
                /\ UNCHANGED <<idx, resolved, origin>>
           [] r.outcome = "skip" ->
                /\ idx' = idx + 1
                /\ UNCHANGED <<resolved, origin, raised>>
           [] OTHER ->
                /\ idx' = idx + 1
                /\ resolved' = Append(resolved, r.entry)
                /\ origin' = Append(origin, idx)
                /\ UNCHANGED raised
    /\ UNCHANGED <<today, events, walkVars, runVars, histVars>>

ResolveNext == ResolveStep

SpecResolve == ResolveInit /\ [][ResolveNext]_vars

\* ------------------------------------------------ claims on SpecResolve
\* What the labels of a recorded triple say, read off the label itself.
LabelDay(ev) == ev.dlabel[2].n
LabelMonth(ev) ==
    CHOOSE i \in 1..12 : ev.dlabel[3].s \in {MonthAbbr[i], "AUG"} /\
                          (ev.dlabel[3].s = "AUG" => i = 8)
LabelIsDate(ev) ==
    /\ Len(ev.dlabel) >= 3
    /\ ev.dlabel[1].s \in Weekdays
    /\ ev.dlabel[2].k = "num"
    /\ ev.dlabel[3].s \in {MonthAbbr[i] : i \in 1..12} \cup {"AUG"}
LabelHour(ev) == ev.tlabel[1].n
LabelMinute(ev) == ev.tlabel[1].m
LabelIsPm(ev) == ev.tlabel[1].s \in {"pm", "PM"}

\* The date (today's year, month, day) is not more than 2 days before today.
WithinGrace(ev) ==
    Ordinal(today.year, LabelMonth(ev), LabelDay(ev)) + 2
        >= Ordinal(today.year, today.mon, today.day)
ExpectedYear(ev) == IF WithinGrace(ev) THEN today.year ELSE today.year + 1

\* The label names a real instant: its day exists in its month, in today's
\* year and in the year the rule picks, and its minute is at most 59.
RealInstant(ev) ==
    /\ LabelIsDate(ev)
    /\ DateExists(today.year, LabelMonth(ev), LabelDay(ev))
    /\ DateExists(ExpectedYear(ev), LabelMonth(ev), LabelDay(ev))
    /\ LabelMinute(ev) <= 59

Resolved(i) == \E k \in 1..Len(resolved) : origin[k] = i

\* C1 (as claimed): resolving never raises; a triple that names no real
\* instant is skipped, and every other triple of the sequence is resolved
\* and returned.
C1_ResolveNeverRaises ==
    /\ ~raised
    /\ \A i \in 1..(idx - 1) : RealInstant(events[i]) <=> Resolved(i)

C7_ClockTime ==
    /\ \A k \in 1..Len(resolved) :
          LET ev == events[origin[k]]
              st == resolved[k].start
              h == LabelHour(ev)
          IN h \in 1..12 =>
               /\ st.minute = LabelMinute(ev)
               /\ st.hour = IF LabelIsPm(ev)
                               THEN (IF h = 12 THEN 12 ELSE h + 12)
                               ELSE (IF h = 12 THEN 0 ELSE h)
               /\ st.hour \in 0..23
    /\ \A i \in 1..(idx - 1) :
          (RealInstant(events[i]) /\ LabelHour(events[i]) \in 1..12)
              => Resolved(i)

\* C7 witness: "12.00am" resolved to 00:00.
C7_Witness ==
    /\ Len(resolved) >= 1
    /\ events[origin[1]].tlabel = <<Time(12, 0, "am")>>
    /\ resolved[1].start.hour = 0
    /\ resolved[1].start.minute = 0

\* =====================================================================
\* The showtimes walk
\* =====================================================================
\* The elements documents are made of.
Leaves ==
    {Node("h2", <<Word("Times & tickets")>>, "", 0),
     Node("h3", <<Word("Screening Key")>>, "", 0),
     Node("p", <<Wd("Sun"), Num(31), Mon("Aug")>>, "", 0),
     Node("p", <<Wd("Mon"), Num(1), Mon("Sep"), Comma, Word("subtitled")>>,
          "", 0),
     Node("p", <<Wd("Sun"), Word("special")>>, "", 0),
     Node("a", <<Time(5, 30, "pm")>>, "/book/1", 0),
     Node("a", <<Time(7, 45, "PM")>>, "/book/2", 0),
     Node("a", <<Word("Trailer")>>, "/trailer", 0)}
Elements == Leaves \cup {Node("div", <<>>, "", 0)}

\* Where the next element of a document can hang: under the document, or
\* under a div that is still open after the last element.
OpenParents(d) ==
    {0} \cup (IF Len(d) = 0 THEN {}
              ELSE {i \in Ancestors(d, Len(d)) : d[i].name = "div"})

RECURSIVE DocsOfLen(_)
DocsOfLen(n) ==
    IF n = 0 THEN {<<>>}
    ELSE {Append(d, [e EXCEPT !.parent = q]) :
            <<d, e, q>> \in {t \in DocsOfLen(n - 1) \X Elements \X (0..(n - 1)) :
                               t[3] \in OpenParents(t[1])}}

Docs == UNION {DocsOfLen(n) : n \in 1..MaxNodes}

WalkInit ==
    /\ doc \in Docs
    /\ walkpc = "find"
    /\ pos = 0
    /\ current_date = <<>>
    /\ events = <<>>
    /\ from = <<>>
    /\ ResolveIdle
    /\ RunIdle

\* lines 107-121: find the heading; without it return the empty list.
WalkBegin ==
    /\ walkpc = "find"
    /\ IF start_index(doc) = 0
       THEN walkpc' = "done" /\ pos' = pos
       ELSE walkpc' = "walk" /\ pos' = FirstWalked(doc)
    /\ UNCHANGED <<doc, current_date, events, from, resolveVars, runVars, histVars>>

\* lines 122-140: one iteration of "for node in block.find_all_next()".
WalkNode ==
    /\ walkpc = "walk"
    /\ pos <= Len(doc)
    /\ LET new == DateAfter(doc, pos, current_date) IN
         /\ current_date' = new
         /\ IF IsTimeLink(doc, pos, new)
            THEN /\ events' = Append(events,
                                     [dlabel |-> new,
                                      tlabel |-> get_text(doc, pos),
                                      href |-> urljoin(doc[pos].href)])
                 /\ from' = Append(from, pos)
            ELSE UNCHANGED <<events, from>>
    /\ IF IsEndMarker(doc, pos)
       THEN walkpc' = "done" /\ pos' = pos
       ELSE walkpc' = "walk" /\ pos' = pos + 1
    /\ UNCHANGED <<doc, resolveVars, runVars, histVars>>

\* line 122: the iteration is exhausted.
WalkEnd ==
    /\ walkpc = "walk"
    /\ pos > Len(doc)
    /\ walkpc' = "done"
    /\ UNCHANGED <<doc, pos, current_date, events, from, resolveVars, runVars,
                   histVars>>

WalkNext == WalkBegin \/ WalkNode \/ WalkEnd

SpecWalk == WalkInit /\ [][WalkNext]_vars

\* --------------------------------------------------- claims on SpecWalk
\* The first "Screening Key" heading after the start heading; past the end
\* of the document when there is none.
EndMarkerAfterStart ==
    LET ms == {j \in (start_index(doc) + 1)..Len(doc) : IsEndMarker(doc, j)}
    IN IF ms = {} THEN Len(doc) + 1 ELSE CHOOSE j \in ms : \A k \in ms : j <= k

\* C9 (as claimed): every recorded showtime comes from a time link after
\* the "Times & tickets" heading and before the first following "Screening
\* Key" heading, and a document without the start heading yields nothing.
C9_InsideSection ==
    /\ start_index(doc) = 0 => events = <<>>
    /\ \A k \in 1..Len(events) :
          /\ start_index(doc) < from[k]
          /\ from[k] < EndMarkerAfterStart

\* The elements visited up to element i whose text begins with a weekday, a
\* day number and a month abbreviation.
DateLabelsUpTo(i) ==
    {j \in FirstWalked(doc)..i : DateLabelMatch(get_text(doc, j))}

\* C10 (as claimed), in a document that begins with the start heading, so
\* that the walk visits nothing before it: the current date label is the
\* label of the most recent element whose text begins with a weekday, a day
\* number and a month abbreviation; every recorded time link carries that
\* label, and a time link met before any such element is not recorded.
C10_MostRecentDateLabel ==
    start_index(doc) = 1 =>
      /\ current_date # <<>> => DateLabelMatch(current_date)
      /\ \A k \in 1..Len(events) :
            LET ds == DateLabelsUpTo(from[k])
            IN /\ ds # {}
               /\ events[k].dlabel =
                    StripAfterComma(get_text(doc,
                        CHOOSE j \in ds : \A l \in ds : l <= j))

\* =====================================================================
\* A run: build_calendar and __main__
\* =====================================================================
\* What the site can answer. An index page: its link targets, and whether
\* it has a link whose text matches "Next".
Hrefs == {"/whats-on/programme/a/",
          "https://www.phoenix.org.uk/whats-on/programme/a/",
          "/whats-on/programme/b/", "/whats-on/programme/c/", "/whats-on/"}
IndexPages == [links : SUBSET Hrefs, next : BOOLEAN]

\* Programme pages: one without showtimes, one with two showtimes, one
\* that lists the same time link twice, one with a date that does not exist.
Heading == Node("h2", <<Word("Times & tickets")>>, "", 0)
ProgrammePages ==
    {<<Node("h1", <<Word("Caught Stealing"), Num(15)>>, "", 0),
       Node("p", <<Word("Coming soon")>>, "", 0)>>,
     <<Node("h1", <<Word("Caught Stealing"), Num(15)>>, "", 0),
       Heading,
       Node("p", <<Wd("Sun"), Num(31), Mon("Aug")>>, "", 0),
       Node("a", <<Time(5, 30, "pm")>>, "/book/1", 0),
       Node("a", <<Time(7, 45, "PM")>>, "/book/2", 0)>>,
     <<Node("h1", <<Word("Caught Stealing")>>, "", 0),
       Heading,
       Node("p", <<Wd("Sun"), Num(31), Mon("Aug")>>, "", 0),
       Node("a", <<Time(5, 30, "pm")>>, "/book/1", 0),
       Node("a", <<Time(5, 30, "pm")>>, "/book/1", 0)>>,
     <<Node("h1", <<Word("Sinners"), Num(15)>>, "", 0),
       Heading,
       Node("p", <<Wd("Sat"), Num(31), Mon("Feb")>>, "", 0),
       Node("a", <<Time(5, 30, "pm")>>, "/book/2", 0)>>}

\* lines 49-50: a failed request raises out of get_soup, and nothing
\* between there and the top of the script catches it.
OnFetchErrorIgnored == "final_sleep"

OnFetchError == "failed"

\* line 187: programme_urls |= set(find_programme_links(soup))
MergeLinksOverwrite(urls, s) == find_programme_links(s)

MergeLinks(urls, s) == urls \cup find_programme_links(s)

Min(a, b) == IF a <= b THEN a ELSE b
Range(f) == {f[i] : i \in DOMAIN f}

Init ==
    /\ pc = "fetch_index"
    /\ RunStart
    /\ today \in SomeDates
    /\ idx = 1
    /\ resolved = <<>>
    /\ origin = <<>>
    /\ raised = FALSE
    /\ events = <<>>
    /\ WalkIdle

\* lines 57-59: get_soup of the index page, which answers.
FetchIndex ==
    /\ pc = "fetch_index"
    /\ \E s \in IndexPages :
         /\ soup' = s
         /\ IF page > Len(indexFetched)
            THEN /\ indexFetched' = Append(indexFetched, page)
                 /\ nextSeen' = Append(nextSeen, s.next)
            ELSE /\ indexFetched' = indexFetched
                 /\ nextSeen' = [nextSeen EXCEPT ![page] = s.next]
         /\ relinked' = (relinked \/ find_programme_links(s) \cap linked # {})
         /\ linked' = linked \cup find_programme_links(s)
    /\ pc' = "scan"
    /\ gap' = 0
    /\ fetched' = TRUE
    /\ UNCHANGED <<page, programme_urls, queue, psoup, cal, out, fetchFailed,
                   progFetched, assembled, resolveVars, walkVars, events>>

\* lines 49-50, 58: get_soup of the index page, which fails.
FetchIndexFails ==
    /\ pc = "fetch_index"
    /\ pc' = OnFetchError
    /\ fetchFailed' = TRUE
    /\ gap' = 0
    /\ fetched' = TRUE
    /\ IF page > Len(indexFetched)
       THEN indexFetched' = Append(indexFetched, page)
       ELSE indexFetched' = indexFetched
    /\ UNCHANGED <<page, soup, programme_urls, queue, psoup, cal, out,
                   nextSeen, linked, relinked, progFetched, assembled,
                   resolveVars, walkVars, events>>

\* lines 186-188: the body of the loop over the index pages.
Scan ==
    /\ pc = "scan"
    /\ programme_urls' = MergeLinks(programme_urls, soup)
    /\ gap' = gap + 1
    /\ pc' = "next"
    /\ UNCHANGED <<page, soup, queue, psoup, cal, out, fetched, fetchFailed,
                   indexFetched, nextSeen, linked, relinked, progFetched,
                   assembled, resolveVars, walkVars, events>>

\* lines 60-64: the generator resumes: no "Next" link ends it (and line 190
\* sorts the URLs), a "Next" link leads to the next page after a sleep.
NextPage ==
    /\ pc = "next"
    /\ IF ~soup.next
       THEN /\ queue' = sorted(programme_urls)
            /\ pc' = IF programme_urls = {} THEN "final_sleep"
                                              ELSE "fetch_prog"
            /\ UNCHANGED <<page, gap>>
       ELSE /\ page' = Min(page + 1, MaxPage)
            /\ gap' = gap + 1
            /\ pc' = "fetch_index"
            /\ UNCHANGED queue
    /\ UNCHANGED <<soup, programme_urls, psoup, cal, out, fetched,
                   fetchFailed, indexFetched, nextSeen, linked, relinked,
                   progFetched, assembled, resolveVars, walkVars, events>>

\* line 191: get_soup of the next programme URL, which answers.
FetchProgramme ==
    /\ pc = "fetch_prog"
    /\ psoup' \in ProgrammePages
    /\ progFetched' = Append(progFetched, Head(queue))
    /\ pc' = "assemble"
    /\ gap' = 0
    /\ fetched' = TRUE
    /\ UNCHANGED <<page, soup, programme_urls, queue, cal, out, fetchFailed,
                   indexFetched, nextSeen, linked, relinked, assembled,
                   resolveVars, walkVars, events>>

\* lines 49-50, 191: get_soup of the next programme URL, which fails.
FetchProgrammeFails ==
    /\ pc = "fetch_prog"
    /\ progFetched' = Append(progFetched, Head(queue))
    /\ pc' = OnFetchError
    /\ fetchFailed' = TRUE
    /\ gap' = 0
    /\ fetched' = TRUE
    /\ UNCHANGED <<page, soup, programme_urls, queue, psoup, cal, out,
                   indexFetched, nextSeen, linked, relinked, assembled,
                   resolveVars, walkVars, events>>

\* lines 192-210: the events of the page are added to the calendar, unless
\* parse_times_and_dates raises.
Assemble ==
    /\ pc = "assemble"
    /\ LET r == parse_times_and_dates(psoup, today) IN
         IF r.raised
         THEN /\ pc' = "failed"
              /\ UNCHANGED <<queue, cal, assembled>>
         ELSE /\ cal' = cal \o events_of(title_of(psoup), r.resolved)
              /\ queue' = Tail(queue)
              /\ assembled' = assembled + 1
              /\ pc' = IF Tail(queue) = <<>> THEN "final_sleep"
                                              ELSE "fetch_prog"
    /\ UNCHANGED <<page, soup, programme_urls, psoup, out, gap, fetched,
                   fetchFailed, indexFetched, nextSeen, linked, relinked,
                   progFetched, resolveVars, walkVars, events>>

\* lines 211-213: the sleep after the loop over the programme URLs.
FinalSleep ==
    /\ pc = "final_sleep"
    /\ gap' = gap + 1
    /\ pc' = "write"
    /\ UNCHANGED <<page, soup, programme_urls, queue, psoup, cal, out,
                   fetched, fetchFailed, indexFetched, nextSeen, linked,
                   relinked, progFetched, assembled, resolveVars, walkVars,
                   events>>

\* lines 216-220: the calendar is written to the output file.
WriteFile ==
    /\ pc = "write"
    /\ out' = [writes |-> out.writes + 1, data |-> cal]
    /\ pc' = "done"
    /\ UNCHANGED <<page, soup, programme_urls, queue, psoup, cal, histVars,
                   resolveVars, walkVars, events>>

Next ==
    \/ FetchIndex
    \/ FetchIndexFails
    \/ Scan
    \/ NextPage
    \/ FetchProgramme
    \/ FetchProgrammeFails
    \/ Assemble
    \/ FinalSleep
    \/ WriteFile

Spec == Init /\ [][Next]_vars

\* The steps of discovery, lines 53-64 and 186-188.
Discovery == FetchIndex \/ FetchIndexFails \/ Scan \/ NextPage

\* The interpreter keeps executing the script: while discovery can take a
\* step, it takes one.
FairSpec == Spec /\ WF_vars(Discovery)

\* -------------------------------------------- claims on Spec and FairSpec
\* C3 (as claimed): whenever a page is about to be requested and one has
\* been requested before, at least one sleep of 1.5 seconds has been
\* executed since that request.
C3_PacedFetches ==
    (pc \in {"fetch_index", "fetch_prog"} /\ fetched) => gap >= 1

\* C4 (as claimed): discovery ends in every run, also when every index
\* page fetched has a "Next" link.
C4_DiscoveryEnds == <>(pc \notin {"fetch_index", "scan", "next"})

\* C5 (as claimed): no two events of the calendar carry the same uid.
C5_UniqueUids ==
    \A i, j \in 1..Len(cal) : i # j => cal[i].uid # cal[j].uid

\* C6: a run in which a request failed has aborted and has not touched the
\* output file; the file is written at most once, and only when every
\* discovered programme page has been fetched and its events added.
C6_AllOrNothing ==
    /\ fetchFailed => (pc = "failed" /\ out.writes = 0)
    /\ pc = "failed" => out.writes = 0
    /\ out.writes <= 1
    /\ pc = "done" => out.writes = 1
    /\ out.writes = 1 =>
          /\ pc = "done"
          /\ queue = <<>>
          /\ Range(progFetched) = programme_urls
          /\ assembled = Cardinality(programme_urls)
          /\ out.data = cal

\* C6 witness: a programme request fails after another page's events were
\* added; the run has aborted and the file is untouched.
C6_Witness ==
    /\ fetchFailed
    /\ pc = "failed"
    /\ assembled >= 1
    /\ Len(cal) >= 1
    /\ out.writes = 0

\* C8: the index pages are requested in the order 1, 2, ...; discovery ends
\* at the first page without a "Next" link, and the URL set is then the
\* union of the programme links of the pages fetched; the programme URLs
\* are requested in ascending order, each once, none left out.
C8_Discovery ==
    /\ \A i \in 1..Len(indexFetched) : indexFetched[i] = i
    /\ pc \in {"fetch_prog", "assemble", "final_sleep", "write", "done"} =>
          /\ Len(nextSeen) = Len(indexFetched)
          /\ \A i \in 1..Len(nextSeen) : nextSeen[i] <=> i < Len(nextSeen)
          /\ programme_urls = linked
    /\ \A i, j \in 1..Len(progFetched) :
          i < j => UrlRank(progFetched[i]) < UrlRank(progFetched[j])
    /\ \A i \in 1..Len(progFetched) :
          /\ progFetched[i] \in linked
          /\ \A u \in linked :
                UrlRank(u) < UrlRank(progFetched[i])
                    => \E j \in 1..(i - 1) : progFetched[j] = u
    /\ pc \in {"final_sleep", "write", "done"} =>
          Range(progFetched) = linked

\* C8 witness: a finished run over two index pages that link a common
\* programme, with three programme pages fetched.
C8_Witness ==
    /\ pc = "done"
    /\ Len(indexFetched) = 2
    /\ relinked
    /\ Len(progFetched) = 3

=============================================================================
